---- MODULE Spec2Model ----
(***************************************************************************)
(* A model of the tenant data plane of scalable-multitenant-databases:     *)
(* the write pipeline, the cached read path, on-demand rehydration, the    *)
(* idle-time demotion job, the standby fan-out worker and the schema       *)
(* migration worker.                                                       *)
(*                                                                         *)
(* One tenant is modelled.  A tenant database file is the set of the       *)
(* effects (write ids) it contains; the absence of a file is NoFile.       *)
(* Every call to an external service (object store, metadata store, bus,   *)
(* in-memory cache, file system) may fail, chosen nondeterministically.    *)
(***************************************************************************)
EXTENDS Integers, Sequences, FiniteSets, TLC

\* ---------------------------------------------------------------- bounds
\* Number of write requests issued to the tenant.
MaxWrites == 2
\* Number of read requests issued to the tenant.
MaxReads == 2
\* Number of demotion cycles run.
MaxCycles == 1
\* Last tick of the clock.
MaxTime == 1
\* Number of deliveries of the migration message.
MaxDeliveries == 2
\* Longest operation list of a migration message.
MaxOps == 2
\* Idle threshold of the demotion job, in clock ticks (the code's default
\* is 24.0 hours; one tick of this model's clock stands for a day).
COLD_THRESHOLD_HOURS == 1

Effects == 1..MaxWrites
Times == 0..MaxTime
DB == SUBSET Effects
\* "no file at this path": a value outside DB, comparable with its members.
NoFile == {-1}
File == DB \cup {NoFile}

VARIABLES
    now,            \* datetime.utcnow(), in ticks
    \* tenant record (TENANT_METADATA_TABLE)
    \* last_accessed_tz: the stored last_accessed_at carries a UTC offset
    storage_tier, last_accessed_at, last_accessed_tz, last_demoted_at,
    \* replica record (REPLICA_METADATA_TABLE)
    last_updated_at,
    \* the tenant record's current_db_path
    current_db_path,
    \* object store: primary/db_path, primary/replication_snapshots/<key>,
    \* read_only_bucket/db_path, standby_bucket/db_path
    primary, snapshots, read_replica, standby,
    \* hot cache: EFS_MOUNT_DIR/db_key
    efs,
    \* Redis: octodb:tenant:<id>:ver and octodb:tenant:<id>:v<ver>:q:<hash>
    cache_ver, cache,
    \* replication bus: events waiting for the fan-out worker, events it has
    \* processed, and how many events were published per write
    queue, processed, published,
    \* the write request in flight (common/lambdas/write_handler.py)
    wpc, wid, wTier, wUseEfs, wTmp, wSnap, wSnapKey, wLog, wStatus, wRespTs,
    wVer0,
    \* writes that returned success, and the snapshot bytes of each write
    acked, snapOf,
    \* the read request in flight (common/lambdas/read_handler.py)
    \* rTmp: the temporary file of the read-replica path
    rpc, rTier, rUseCache, rResult, rSource, rQVer, rResp, rTmp,
    \* reads begun since the last write request returned success
    readsSinceWrite, rSeq, rCount,
    \* the demotion cycle (caching/lambdas/cold_storage_manager.py)
    \* dPreEfs, dPreDemoted: the hot-cache file and last_demoted_at the cycle
    \* found
    dpc, dNow, dSelected, dPreEfs, dPreDemoted, dUpload, dCycles, dOthers,
    \* the migration worker (migration/lambdas/migration-worker.py): the
    \* schema of the object the message targets, the message, and the
    \* outcome of each of its deliveries
    migFile, migMsg, migLog,
    \* the migration coordinator (migration/lambdas/migration-handler.py):
    \* the requests to come, the request in flight and its position, the
    \* tenants it fans out to, the schema artifacts of the primary and of the
    \* standby bucket, each tenant's parent_schema_ref, the migration queue
    \* with the messages in flight and deleted, and, of the request in
    \* flight: the number of messages it sent, how it ended, the objects it
    \* wrote, the artifact its rewrite found and whether the rewrite put it
    coInbox, coReq, cpc, coTenants, coSchemas, coStandbySchemas, coParent,
    coQueue, coInFlight, coDeleted, coSent, coError, coStatus, coWrote,
    coPre, coPut,
    \* a direct invocation of the rehydration handler: how it ended, the
    \* db_key of the event, the outcome of its metadata update, and the
    \* current_db_path and the time it found
    hResult, hKey, hMeta, hPrePath, hAt,
    \* the response of the last standby read
    sResp,
    \* delete_tenant (common/lambdas/octodb-tenant-management.py): whether
    \* the tenant record and the replica record exist, the position of the
    \* request, the key it deletes, the buckets it called delete_object on,
    \* and its status
    tenantRecord, replicaRecord, delPc, delPath, delAttempted, delStatus,
    \* the migration worker seen at the level of whole files: its position,
    \* the bucket of the message in hand, its local copy /tmp/in_<id>.sqlite
    \* and the buckets whose object it has migrated
    mwPc, mwBucket, mwLocal, mwDone,
    \* history: the number of read requests answered when the worker
    \* rewrote the primary object (-1 before that), and the writes whose
    \* snapshot file existed then
    mwReadsDone, mwSnapsBefore

tenantVars == <<storage_tier, last_accessed_at, last_accessed_tz,
                last_demoted_at>>
storeVars == <<primary, snapshots, read_replica, standby>>
cacheVars == <<cache_ver, cache>>
busVars == <<queue, processed, published>>
writerVars == <<wpc, wid, wTier, wUseEfs, wTmp, wSnap, wSnapKey, wLog,
                wStatus, wRespTs, wVer0, acked, snapOf>>
readerVars == <<rpc, rTier, rUseCache, rResult, rSource, rQVer, rResp, rTmp,
                rSeq, rCount>>
demoteVars == <<dpc, dNow, dSelected, dPreEfs, dPreDemoted, dUpload, dCycles,
                dOthers>>
migVars == <<migFile, migMsg, migLog>>
coordVars == <<coInbox, coReq, cpc, coTenants, coSchemas, coStandbySchemas,
               coParent, coQueue, coInFlight, coDeleted, coSent, coError,
               coStatus, coWrote, coPre, coPut>>
hydVars == <<hResult, hKey, hMeta, hPrePath, hAt>>
standbyReadVars == <<sResp>>
deleteVars == <<tenantRecord, replicaRecord, delPc, delPath, delAttempted,
                delStatus>>
workerVars == <<mwPc, mwBucket, mwLocal, mwDone, mwReadsDone,
                mwSnapsBefore>>
vars == <<now, tenantVars, last_updated_at, current_db_path, storeVars, efs,
          cacheVars,
          busVars, writerVars, readerVars, readsSinceWrite, demoteVars,
          migVars, coordVars, hydVars, standbyReadVars, deleteVars, workerVars>>

notWriter == <<readerVars, demoteVars, migVars, coordVars, hydVars,
               standbyReadVars, deleteVars, workerVars>>
notReader == <<writerVars, demoteVars, migVars, coordVars, hydVars,
               standbyReadVars, deleteVars, workerVars>>
notDemote == <<writerVars, readerVars, readsSinceWrite, migVars, coordVars,
               hydVars, standbyReadVars, deleteVars, workerVars>>
procVars == <<writerVars, readerVars, readsSinceWrite, demoteVars, coordVars,
              hydVars, standbyReadVars, deleteVars, workerVars>>
notCoord == <<now, tenantVars, last_updated_at, current_db_path, storeVars,
              efs, cacheVars,
              busVars, writerVars, readerVars, readsSinceWrite, demoteVars,
              migVars, hydVars, standbyReadVars, deleteVars, workerVars>>

\* The outcome of a call to an external service.
Outcome == {"ok", "fail"}

\* ------------------------------------------------------------ rehydration
\* caching/lambdas/rehydration_handler.py: download source_bucket/db_key to
\* the hot-cache path, then stamp the tenant HOT.  `meta` is the outcome of
\* the metadata update, whose failure is only logged.
\* The object keys of database files; Unset: the record has no
\* current_db_path.
DbPaths == {"p1", "p2"}
Unset == ""
\* db_path: the key the read replica record gives.
db_path == "p1"
\* tenant_item.get('current_db_path') or db_path
db_key == IF current_db_path = Unset THEN db_path ELSE current_db_path

\* The other reading of the update expression: the key is written whatever
\* the record holds.
Overwritten(cur, v) == v
\* DynamoDB's if_not_exists(current_db_path, :db_key).
if_not_exists(cur, v) == IF cur = Unset THEN v ELSE cur

\* The handler called with `key`, its download giving `source`.
RehydratedWith(source, meta, key) ==
    /\ efs' = source
    /\ IF meta = "ok"
       THEN /\ storage_tier' = "HOT"
            /\ last_accessed_at' = now
            /\ last_accessed_tz' = TRUE
            /\ current_db_path' = if_not_exists(current_db_path, key)
       ELSE UNCHANGED <<storage_tier, last_accessed_at, last_accessed_tz,
                        current_db_path>>
    /\ UNCHANGED last_demoted_at

\* The handler as the read, write and migration handlers invoke it.
Rehydrated(source, meta) == RehydratedWith(source, meta, db_key)

\* rehydration_handler.lambda_handler invoked with an event naming `key`:
\* the download (dl: it succeeds, it raises, or it leaves no file), the
\* metadata update, the 200.  Every exception but the metadata update's
\* leaves the handler.
Rehydrate ==
    /\ hResult = "none"
    /\ \E key \in DbPaths, dl \in {"ok", "fail", "missing"}, meta \in Outcome :
         /\ hKey' = key
         /\ hPrePath' = current_db_path
         /\ hAt' = now
         /\ IF dl = "ok"
            THEN /\ RehydratedWith(primary, meta, key)
                 /\ hMeta' = meta
                 /\ hResult' = "ok"
            ELSE /\ efs' = IF dl = "missing" THEN NoFile ELSE efs
                 /\ hMeta' = "none"
                 /\ hResult' = "raised"
                 /\ UNCHANGED <<tenantVars, current_db_path>>
    /\ UNCHANGED <<now, last_updated_at, storeVars, cacheVars, busVars,
                   writerVars, readerVars, readsSinceWrite, demoteVars,
                   migVars, coordVars, standbyReadVars, deleteVars, workerVars>>


\* ----------------------------------------------------------- write pipeline
\* update_last_accessed: a failure is logged, never surfaced.
update_last_accessed(res) ==
    IF res = "ok"
    THEN /\ last_accessed_at' = now
         /\ last_accessed_tz' = FALSE
    ELSE UNCHANGED <<last_accessed_at, last_accessed_tz>>

\* One step of the request is appended to its log: <<name, outcome>>.
Logged(step, res) == wLog' = Append(wLog, <<step, res>>)

\* A return that leaves the try without its finally block: the files stay.
ReturnedWithoutCleanup(status) ==
    /\ wpc' = "done"
    /\ wStatus' = status
    /\ UNCHANGED <<wTmp, wSnap>>

\* create_response(status, ...) followed by the handler's finally block,
\* which removes the temporary database copy and the local snapshot.
WriteReturn(status) ==
    /\ wpc' = "done"
    /\ wStatus' = status
    /\ wTmp' = NoFile
    /\ wSnap' = NoFile

\* Tenant and replica lookup, storage tier, last_accessed_at.
WriteBegin ==
    /\ wpc \in {"idle", "done"}
    /\ wid < MaxWrites
    /\ wid' = wid + 1
    /\ wTier' = storage_tier
    /\ wUseEfs' = (storage_tier = "HOT")
    /\ \E res \in Outcome : update_last_accessed(res)
    /\ wpc' = IF storage_tier = "HOT" THEN "efs_check" ELSE "download"
    /\ wLog' = <<>>
    /\ wStatus' = 0
    /\ wRespTs' = 0
    /\ wSnapKey' = 0
    /\ wTmp' = NoFile
    /\ wSnap' = NoFile
    /\ wVer0' = cache_ver
    /\ UNCHANGED <<now, storage_tier, last_demoted_at, last_updated_at,
                   current_db_path,
                   storeVars, efs, cacheVars, busVars, notWriter,
                   readsSinceWrite, acked, snapOf>>

\* HOT tenant: use the hot-cache file, rehydrating it from the primary
\* bucket when it is missing; fall back to the object store when the
\* rehydration fails.
WriteEfsCheck ==
    /\ wpc = "efs_check"
    /\ \/ /\ efs # NoFile
          /\ wpc' = "execute"
          /\ UNCHANGED <<efs, tenantVars, current_db_path, wUseEfs>>
       \/ /\ efs = NoFile
          /\ \E meta \in Outcome : Rehydrated(primary, meta)
          /\ wpc' = "execute"
          /\ UNCHANGED wUseEfs
       \/ /\ efs = NoFile
          /\ wUseEfs' = FALSE
          /\ wpc' = "download"
          /\ UNCHANGED <<efs, tenantVars, current_db_path>>
    /\ UNCHANGED <<now, last_updated_at, storeVars, cacheVars, busVars,
                   wid, wTier, wTmp, wSnap, wSnapKey, wLog, wStatus,
                   wRespTs, wVer0,
                   acked, snapOf, notWriter, readsSinceWrite>>

\* Not on the hot cache: download primary_bucket/db_path to a temp file.
WriteDownload ==
    /\ wpc = "download"
    /\ \/ /\ wTmp' = primary
          /\ wpc' = "execute"
          /\ UNCHANGED <<wStatus, wSnap>>
       \/ WriteReturn(500)
    /\ UNCHANGED <<now, tenantVars, last_updated_at, current_db_path,
                   storeVars, efs,
                   cacheVars, busVars, wid, wTier, wUseEfs, wSnapKey, wLog,
                   wRespTs, wVer0,
                   acked, snapOf, notWriter, readsSinceWrite>>

\* The file the statement runs on.  sqlite3.connect creates the database
\* when the path holds no file.
WorkingFile == IF wUseEfs THEN efs ELSE wTmp
Opened(f) == IF f = NoFile THEN {} ELSE f

\* A connection closed without conn.commit(): the statement leaves no trace.
RolledBack(f) == Opened(f)

\* cursor.execute(sql_query); conn.commit()
Committed(f) == Opened(f) \cup {wid}

\* timestamp = datetime.utcnow().strftime(...): the snapshot's key
SnapshotKey == now

\* Execute and commit the statement on the working file, then VACUUM INTO
\* the local snapshot.  A sqlite3.Error in either ends the request with 400.
WriteExecute ==
    /\ wpc = "execute"
    /\ \/ /\ Logged("execute", "fail")
          /\ WriteReturn(400)
          /\ UNCHANGED <<efs, wSnapKey, snapOf>>
       \/ \E vac \in Outcome :
            /\ IF wUseEfs
               THEN /\ efs' = Committed(efs)
                    /\ IF vac = "ok"
                       THEN /\ wSnap' = Committed(efs)
                            /\ UNCHANGED wTmp
                       ELSE TRUE
               ELSE /\ UNCHANGED efs
                    /\ IF vac = "ok"
                       THEN /\ wTmp' = Committed(wTmp)
                            /\ wSnap' = Committed(wTmp)
                       ELSE TRUE
            /\ IF vac = "ok"
               THEN /\ wSnapKey' = SnapshotKey
                    /\ snapOf' = [snapOf EXCEPT ![wid] = Committed(WorkingFile)]
                    /\ wpc' = "upload_db"
                    /\ wLog' = wLog \o <<<<"execute", "ok">>,
                                         <<"snapshot", "ok">>>>
                    /\ UNCHANGED wStatus
               ELSE /\ UNCHANGED <<wSnapKey, snapOf>>
                    /\ wLog' = wLog \o <<<<"execute", "ok">>,
                                         <<"snapshot", "fail">>>>
                    /\ WriteReturn(400)
    /\ UNCHANGED <<now, tenantVars, last_updated_at, current_db_path,
                   storeVars, cacheVars,
                   busVars, wid, wTier, wUseEfs, wRespTs, wVer0,
                   acked, notWriter, readsSinceWrite>>

\* A step whose failure is not looked at: the request goes on to publish.
ThenPublish(res) == "publish"

\* Where the request goes after a step whose failure is fatal: on to `next`,
\* or out with an error response.
AfterUploadDb(res) == IF res = "ok" THEN "upload_snapshot" ELSE "done"
AfterUploadSnapshot(res) == IF res = "ok" THEN "publish" ELSE "done"
AfterUpdateReplica(res) == IF res = "ok" THEN "bump" ELSE "done"

\* Continue with the next step, or return `status`.
WriteGoto(next, status) ==
    IF next = "done"
    THEN WriteReturn(status)
    ELSE /\ wpc' = next
         /\ UNCHANGED <<wStatus, wTmp, wSnap>>

\* The outcomes of an upload of file f: a missing file cannot succeed.
UploadOutcome(f) == IF f = NoFile THEN {"fail"} ELSE Outcome

\* s3.upload_file(source_path, primary_bucket, db_path)
WriteUploadDb ==
    /\ wpc = "upload_db"
    /\ \E res \in UploadOutcome(WorkingFile) :
         /\ primary' = IF res = "ok" THEN WorkingFile ELSE primary
         /\ Logged("upload_db", res)
         /\ WriteGoto(AfterUploadDb(res), 500)
    /\ UNCHANGED <<now, tenantVars, last_updated_at, current_db_path,
                   snapshots,
                   read_replica, standby, efs, cacheVars, busVars, wid,
                   wTier, wUseEfs, wSnapKey, wRespTs, wVer0,
                   acked, snapOf, notWriter, readsSinceWrite>>

\* s3.upload_file(snapshot_path, primary_bucket, snapshot_s3_key)
WriteUploadSnapshot ==
    /\ wpc = "upload_snapshot"
    /\ \E res \in UploadOutcome(wSnap) :
         /\ snapshots' = IF res = "ok"
                          THEN [snapshots EXCEPT ![wSnapKey] = wSnap]
                          ELSE snapshots
         /\ Logged("upload_snapshot", res)
         /\ WriteGoto(AfterUploadSnapshot(res), 500)
    /\ UNCHANGED <<now, tenantVars, last_updated_at, current_db_path, primary,
                   read_replica,
                   standby, efs, cacheVars, busVars, wid, wTier, wUseEfs,
                   wSnapKey, wRespTs, wVer0,
                   acked, snapOf, notWriter, readsSinceWrite>>

\* The replication event of the write in flight.
SnsMessage == [id |-> wid, snapshot_s3_key |-> wSnapKey, json |-> TRUE]

\* Where the request goes after sns.publish returned or raised: the
\* exception is caught and printed.
AfterPublish(res) == "update_replica"

\* sns.publish(...)
WritePublish ==
    /\ wpc = "publish"
    /\ \E res \in Outcome :
         /\ IF res = "ok"
            THEN /\ queue' = queue \cup {SnsMessage}
                 /\ published' = [published EXCEPT ![wid] = @ + 1]
            ELSE UNCHANGED <<queue, published>>
         /\ Logged("publish", res)
         /\ WriteGoto(AfterPublish(res), 500)
    /\ UNCHANGED <<now, tenantVars, last_updated_at, current_db_path,
                   storeVars, efs,
                   cacheVars, processed, wid, wTier, wUseEfs, wSnapKey,
                   wRespTs, wVer0,
                   acked, snapOf, notWriter, readsSinceWrite>>

\* replica_table.update_item(SET last_updated_at = :timestamp)
WriteUpdateReplica ==
    /\ wpc = "update_replica"
    /\ \E res \in Outcome :
         /\ last_updated_at' = IF res = "ok" THEN now ELSE last_updated_at
         /\ wRespTs' = IF res = "ok" THEN now ELSE wRespTs
         /\ Logged("update_replica", res)
         /\ WriteGoto(AfterUpdateReplica(res), 500)
    /\ UNCHANGED <<now, tenantVars, current_db_path, storeVars, efs,
                   cacheVars, busVars, wid, wTier, wUseEfs, wSnapKey, wVer0,
                   acked, snapOf, notWriter, readsSinceWrite>>

\* A bump that sets the key anew when INCR raises.
BumpOrReset(res) ==
    cache_ver' = IF res = "ok" THEN cache_ver + 1 ELSE 0

\* bump_cache_version: INCR of the tenant's version key; without a client,
\* or when INCR raises, nothing is changed and nothing is surfaced.
bump_cache_version(res) ==
    cache_ver' = IF res = "ok" THEN cache_ver + 1 ELSE cache_ver

\* bump_cache_version(tenant_id); return create_response(200, ...)
WriteBumpAndReturn ==
    /\ wpc = "bump"
    /\ \E res \in Outcome :
         /\ bump_cache_version(res)
         /\ Logged("bump", res)
    /\ WriteReturn(200)
    /\ acked' = acked \cup {wid}
    /\ readsSinceWrite' = 0
    /\ UNCHANGED <<now, tenantVars, last_updated_at, current_db_path,
                   storeVars, efs, cache,
                   busVars, wid, wTier, wUseEfs, wSnapKey, wRespTs, wVer0,
                   snapOf, notWriter>>

Write ==
    \/ WriteBegin
    \/ WriteEfsCheck
    \/ WriteDownload
    \/ WriteExecute
    \/ WriteUploadDb
    \/ WriteUploadSnapshot
    \/ WritePublish
    \/ WriteUpdateReplica
    \/ WriteBumpAndReturn

\* ---------------------------------------------------------------- read path
\* A cache entry: the success body of the read that populated it.  qver is
\* not part of the stored value: it records the tenant's cache version at
\* the moment the query ran.  returned is not part of it either: it records
\* the db_source of the response the populating read gave.
NoEntry == [data |-> NoFile, storage_tier |-> "", db_source |-> "", qver |-> 0,
            returned |-> ""]
\* A response; ver records the tenant's cache version when it was given,
\* returned the entry's record on a hit, ver_failed that the version GET of
\* the lookup raised.
NoResp == [status |-> 0, cache_hit |-> FALSE, data |-> NoFile,
           storage_tier |-> "", db_source |-> "", qver |-> 0, ver |-> 0,
           returned |-> "", ver_failed |-> FALSE]

\* create_response(...): the request's locals are gone with it.
ReadReturn(resp) ==
    /\ rpc' = "done"
    /\ rResp' = resp
    /\ rTier' = "COLD"
    /\ rUseCache' = FALSE
    /\ rResult' = NoFile
    /\ rSource' = ""
    /\ rQVer' = 0

ErrorResp(status) == [NoResp EXCEPT !.status = status]

\* _get_tenant_ver: the version key, 0 when it is absent or the GET raises.
_get_tenant_ver(res) == IF res = "ok" THEN cache_ver ELSE 0

\* _cache_get_json: the entry, None when it is absent or the GET raises.
_cache_get_json(ver, res) == IF res = "ok" THEN cache[ver] ELSE NoEntry

\* The count of reads begun since the last acknowledged write (-1: no write
\* was acknowledged yet; 2: two or more).
ReadsAfter(n) == IF n \in {0, 1} THEN n + 1 ELSE n

\* Tenant and replica lookup, storage tier, last_accessed_at, Redis client.
\* useCache: a Redis client was obtained and the statement is cacheable.
ReadBegin ==
    /\ rpc \in {"idle", "done"}
    /\ rCount < MaxReads
    /\ rCount' = rCount + 1
    /\ rTier' = storage_tier
    /\ \E res \in Outcome : update_last_accessed(res)
    /\ \E useCache \in BOOLEAN :
         /\ rUseCache' = useCache
         /\ rpc' = IF useCache THEN "cache_lookup" ELSE "execute"
    /\ rResult' = NoFile
    /\ rSource' = ""
    /\ rQVer' = 0
    /\ rResp' = NoResp
    /\ rTmp' = NoFile
    /\ rSeq' = ReadsAfter(readsSinceWrite)
    /\ readsSinceWrite' = ReadsAfter(readsSinceWrite)
    /\ UNCHANGED <<now, storage_tier, last_demoted_at, last_updated_at,
                   current_db_path,
                   storeVars, efs, cacheVars, busVars, notReader>>

\* The read-through lookup under the tenant's current version.
ReadCacheLookup ==
    /\ rpc = "cache_lookup"
    /\ \E verRes \in Outcome, getRes \in Outcome :
         LET ver == _get_tenant_ver(verRes)
             cached == _cache_get_json(ver, getRes)
         IN  IF cached # NoEntry
             THEN ReadReturn([status |-> 200, cache_hit |-> TRUE,
                              data |-> cached.data,
                              storage_tier |-> cached.storage_tier,
                              db_source |-> cached.db_source,
                              qver |-> cached.qver, ver |-> cache_ver,
                              returned |-> cached.returned,
                              ver_failed |-> (verRes = "fail")])
             ELSE /\ rpc' = "execute"
                  /\ UNCHANGED <<rResp, rTier, rUseCache, rResult, rSource,
                                 rQVer>>
    /\ UNCHANGED <<now, tenantVars, last_updated_at, current_db_path,
                   storeVars, efs,
                   cacheVars, busVars, notReader, rTmp, rSeq, rCount,
                   readsSinceWrite>>

\* After the query ran on `data` read from `source`: populate the cache or
\* answer at once.
ReadQueried(data, source) ==
    IF rUseCache
    THEN /\ rpc' = "populate"
         /\ rResult' = data
         /\ rSource' = source
         /\ rQVer' = cache_ver
         /\ UNCHANGED <<rResp, rTier, rUseCache>>
    ELSE ReadReturn([status |-> 200, cache_hit |-> FALSE, data |-> data,
                     storage_tier |-> rTier, db_source |-> source,
                     qver |-> cache_ver, ver |-> cache_ver,
                     returned |-> "", ver_failed |-> FALSE])

\* The temporary file after s3.download_file raised: the return of the 500
\* is outside the try whose finally unlinks it, so the empty file that
\* NamedTemporaryFile(delete=False) created stays.
DownloadFailed == {}

\* Source selection and execution: the hot-cache file when it exists or can
\* be rehydrated from the primary bucket (whatever the tier), else a temp
\* copy of read_only_bucket/db_path.
ReadExecute ==
    /\ rpc = "execute"
    /\ \/ /\ efs # NoFile
          /\ ReadQueried(efs, "EFS")
          /\ UNCHANGED <<efs, tenantVars, current_db_path, rTmp>>
       \/ /\ efs = NoFile
          /\ \E meta \in Outcome : Rehydrated(primary, meta)
          /\ ReadQueried(primary, "EFS")
          /\ UNCHANGED rTmp
       \/ /\ efs = NoFile
          /\ ReadQueried(read_replica, "S3_READ_REPLICA")
          /\ rTmp' = IF rUseCache THEN read_replica ELSE NoFile
          /\ UNCHANGED <<efs, tenantVars, current_db_path>>
       \/ /\ efs = NoFile
          /\ ReadReturn(ErrorResp(500))
          /\ rTmp' = DownloadFailed
          /\ UNCHANGED <<efs, tenantVars, current_db_path>>
       \/ /\ ReadReturn(ErrorResp(400))
          /\ rTmp' = NoFile
          /\ UNCHANGED <<efs, tenantVars, current_db_path>>
    /\ UNCHANGED <<now, last_updated_at, storeVars, cacheVars, busVars,
                   notReader, rSeq, rCount, readsSinceWrite>>

\* The payload written to the cache: db_source is the handler's local
\* variable, which is only set on the hot-cache path.
CachePayload ==
    [data |-> rResult, storage_tier |-> rTier,
     db_source |-> IF rSource = "EFS" THEN "EFS" ELSE "None",
     qver |-> rQVer, returned |-> rSource]

\* The key the entry is stored under: the version is read again.
PopulateVersion(res) == _get_tenant_ver(res)

\* Populate the cache on a miss, then answer.
ReadPopulate ==
    /\ rpc = "populate"
    /\ \E verRes \in Outcome, setRes \in Outcome :
         cache' = IF setRes = "ok"
                  THEN [cache EXCEPT ![PopulateVersion(verRes)] = CachePayload]
                  ELSE cache
    /\ ReadReturn([status |-> 200, cache_hit |-> FALSE, data |-> rResult,
                   storage_tier |-> rTier, db_source |-> rSource,
                   qver |-> rQVer, ver |-> cache_ver,
                   returned |-> "", ver_failed |-> FALSE])
    /\ rTmp' = NoFile
    /\ UNCHANGED <<now, tenantVars, last_updated_at, current_db_path,
                   storeVars, efs,
                   cache_ver, busVars, notReader, rSeq, rCount,
                   readsSinceWrite>>

\* The effect of a schema statement on a database file.
SchemaEffect == MaxWrites + 1

\* cursor.execute(sql_query) with a CREATE, DROP or ALTER statement on a
\* connection that sqlite3.connect opened read-write: the sqlite3 module
\* begins no transaction for such a statement, so the engine commits it as
\* it runs, and closing the connection without commit() keeps it.
Autocommitted(f) == f \cup {SchemaEffect}

\* The 200 of a statement that returned no rows.
NoRows(source) ==
    [status |-> 200, cache_hit |-> FALSE, data |-> {},
     storage_tier |-> rTier, db_source |-> source,
     qver |-> cache_ver, ver |-> cache_ver,
     returned |-> "", ver_failed |-> FALSE]

\* Source selection and execution of a statement that is not cacheable and
\* changes the schema: on the hot-cache file in place, as found or as just
\* rehydrated, else on the temporary copy of the read replica, which the
\* finally block unlinks.
ReadExecuteSchema ==
    /\ rpc = "execute"
    /\ ~rUseCache
    /\ \/ /\ efs # NoFile
          /\ efs' = Autocommitted(efs)
          /\ ReadReturn(NoRows("EFS"))
          /\ UNCHANGED <<tenantVars, current_db_path>>
       \/ /\ efs = NoFile
          /\ primary # NoFile
          /\ \E meta \in Outcome :
               RehydratedWith(Autocommitted(primary), meta, db_key)
          /\ ReadReturn(NoRows("EFS"))
       \/ /\ efs = NoFile
          /\ read_replica # NoFile
          /\ ReadReturn(NoRows("S3_READ_REPLICA"))
          /\ UNCHANGED <<efs, tenantVars, current_db_path>>
    /\ rTmp' = NoFile
    /\ UNCHANGED <<now, last_updated_at, storeVars, cacheVars, busVars,
                   notReader, rSeq, rCount, readsSinceWrite>>

Read ==
    \/ ReadBegin
    \/ ReadCacheLookup
    \/ ReadExecute
    \/ ReadPopulate

\* ------------------------------------------------------------ standby read
\* replication/lambdas/standby-read-handler.py: the response, before any
\* request was answered.
NoStandbyResp == [status |-> 0, data |-> NoFile]

\* A handler that reads the read-replica bucket's object.
ReadOnlyObject == read_replica

\* s3.download_file(standby_bucket, db_path, tmp_db_path): the object the
\* query runs on.
StandbyObject == standby

\* One request: the standby object is downloaded to a temporary file and
\* the query runs on it.  The download or the connection fails with 500,
\* the statement with 400.
StandbyRead ==
    /\ \/ /\ StandbyObject # NoFile
          /\ sResp' = [status |-> 200, data |-> StandbyObject]
       \/ \E status \in {400, 500} :
            sResp' = [NoStandbyResp EXCEPT !.status = status]
    /\ UNCHANGED <<now, tenantVars, last_updated_at, current_db_path,
                   storeVars, efs, cacheVars, busVars, writerVars,
                   readerVars, readsSinceWrite, demoteVars, migVars,
                   coordVars, hydVars, deleteVars, workerVars>>

\* ---------------------------------------------------------- tenant deletion
\* common/lambdas/octodb-tenant-management.py, delete_tenant.
\* The object of a bucket after delete_object(Key = key): the tenant's
\* object is under db_path; deleting another key leaves it.
Deleted(obj, key, res) ==
    IF res = "ok" /\ key = db_path THEN NoFile ELSE obj

\* What the request leaves of everything but the objects and the records.
DeleteFrame ==
    UNCHANGED <<now, tenantVars, last_updated_at, current_db_path, snapshots,
                efs, cacheVars, busVars, writerVars, readerVars,
                readsSinceWrite, demoteVars, migVars, coordVars, hydVars,
                standbyReadVars, workerVars>>

DeleteReturn(status) ==
    /\ delPc' = "done"
    /\ delStatus' = status

\* get_item of the tenant record: 404 when there is none, 500 when it
\* raises; the key to delete is the record's current_db_path, and the
\* bucket deletions are skipped when it is empty.
DeleteBegin ==
    /\ delPc \in {"idle", "done"}
    /\ delAttempted' = {}
    /\ \/ /\ DeleteReturn(500)
          /\ UNCHANGED delPath
       \/ /\ ~tenantRecord
          /\ DeleteReturn(404)
          /\ UNCHANGED delPath
       \/ /\ tenantRecord
          /\ delPath' = current_db_path
          /\ delPc' = IF current_db_path # Unset
                      THEN "primary" ELSE "tenant_record"
          /\ delStatus' = 0
    /\ UNCHANGED <<primary, read_replica, standby, tenantRecord,
                   replicaRecord>>
    /\ DeleteFrame

\* s3.delete_object(Bucket=S3_BUCKET, Key=db_path): a failure is printed.
DeletePrimary ==
    /\ delPc = "primary"
    /\ \E res \in Outcome : primary' = Deleted(primary, delPath, res)
    /\ delAttempted' = delAttempted \cup {"primary"}
    /\ delPc' = "standby"
    /\ UNCHANGED <<read_replica, standby, tenantRecord, replicaRecord,
                   delPath, delStatus>>
    /\ DeleteFrame

\* standby_s3.delete_object(Bucket=STANDBY_S3_BUCKET, Key=db_path)
DeleteStandby ==
    /\ delPc = "standby"
    /\ \E res \in Outcome : standby' = Deleted(standby, delPath, res)
    /\ delAttempted' = delAttempted \cup {"standby"}
    /\ delPc' = "read_replica"
    /\ UNCHANGED <<primary, read_replica, tenantRecord, replicaRecord,
                   delPath, delStatus>>
    /\ DeleteFrame

\* s3.delete_object(Bucket=READ_ONLY_S3_BUCKET, Key=db_path)
DeleteReadOnly ==
    /\ delPc = "read_replica"
    /\ \E res \in Outcome :
         read_replica' = Deleted(read_replica, delPath, res)
    /\ delAttempted' = delAttempted \cup {"read_replica"}
    /\ delPc' = "tenant_record"
    /\ UNCHANGED <<primary, standby, tenantRecord, replicaRecord,
                   delPath, delStatus>>
    /\ DeleteFrame

\* TENANTS_TABLE.delete_item: an exception ends the request with 500.
DeleteTenantRecord ==
    /\ delPc = "tenant_record"
    /\ \/ /\ tenantRecord' = FALSE
          /\ delPc' = "replica_record"
          /\ UNCHANGED delStatus
       \/ /\ DeleteReturn(500)
          /\ UNCHANGED tenantRecord
    /\ UNCHANGED <<primary, read_replica, standby, replicaRecord, delPath,
                   delAttempted>>
    /\ DeleteFrame

\* REPLICA_METADATA_TABLE.delete_item, then the 200.
DeleteReplicaRecord ==
    /\ delPc = "replica_record"
    /\ \/ /\ replicaRecord' = FALSE
          /\ DeleteReturn(200)
       \/ /\ DeleteReturn(500)
          /\ UNCHANGED replicaRecord
    /\ UNCHANGED <<primary, read_replica, standby, tenantRecord, delPath,
                   delAttempted>>
    /\ DeleteFrame

delete_tenant ==
    \/ DeleteBegin
    \/ DeletePrimary
    \/ DeleteStandby
    \/ DeleteReadOnly
    \/ DeleteTenantRecord
    \/ DeleteReplicaRecord

\* ------------------------------------------- migration worker, whole files
\* The worker of migration/lambdas/migration-worker.py once more, at the
\* level of the files it moves: a database file is the set of the writes it
\* holds, together with Migration when its schema is the migrated one.
Migration == 0

BucketNames == {"primary", "read_replica", "standby"}

Object(bucket) ==
    CASE bucket = "primary" -> primary
      [] bucket = "read_replica" -> read_replica
      [] bucket = "standby" -> standby

\* s3.upload_file(local_in, bucket, tenant_key)
Uploaded(bucket, f) ==
    /\ primary' = IF bucket = "primary" THEN f ELSE primary
    /\ read_replica' = IF bucket = "read_replica" THEN f ELSE read_replica
    /\ standby' = IF bucket = "standby" THEN f ELSE standby

WorkerFrame ==
    UNCHANGED <<now, last_updated_at, snapshots, cacheVars, busVars,
                writerVars, readerVars, readsSinceWrite, demoteVars, migVars,
                coordVars, hydVars, standbyReadVars, deleteVars>>

\* s3.download_file(bucket, tenant_key, local_in), for the message of a
\* bucket not migrated yet.
WorkerDownload ==
    /\ mwPc \in {"idle", "done"}
    /\ \E bucket \in BucketNames \ mwDone :
         /\ Object(bucket) # NoFile
         /\ mwBucket' = bucket
         /\ mwLocal' = Object(bucket)
    /\ mwPc' = "apply"
    /\ UNCHANGED <<primary, read_replica, standby, efs, tenantVars,
                   current_db_path, mwDone, mwReadsDone, mwSnapsBefore>>
    /\ WorkerFrame

\* The writes that have made their snapshot file so far.
SnapshotsTaken == {w \in Effects : snapOf[w] # NoFile}

\* The read requests answered so far.
ReadsAnswered == IF rpc \in {"idle", "done"} THEN rCount ELSE rCount - 1

\* apply_ops_to_tenant_db on the local copy, then the upload over the
\* object; an exception in either ends the delivery.
WorkerUpload ==
    /\ mwPc = "apply"
    /\ \/ /\ Uploaded(mwBucket, mwLocal \cup {Migration})
          /\ mwDone' = mwDone \cup {mwBucket}
          /\ mwPc' = IF mwBucket = "primary" THEN "refresh" ELSE "done"
          /\ mwReadsDone' = IF mwBucket = "primary" THEN ReadsAnswered
                                                    ELSE mwReadsDone
          /\ mwSnapsBefore' = IF mwBucket = "primary" THEN SnapshotsTaken
                                                      ELSE mwSnapsBefore
       \/ /\ mwPc' = "done"
          /\ UNCHANGED <<primary, read_replica, standby, mwDone,
                         mwReadsDone, mwSnapsBefore>>
    /\ mwLocal' = NoFile
    /\ UNCHANGED <<efs, tenantVars, current_db_path, mwBucket>>
    /\ WorkerFrame

\* get_tenant_storage_tier, and for a HOT tenant invoke_rehydration, whose
\* failure is a warning.
WorkerRefresh ==
    /\ mwPc = "refresh"
    /\ \/ /\ storage_tier = "HOT"
          /\ \E meta \in Outcome : Rehydrated(primary, meta)
       \/ UNCHANGED <<efs, tenantVars, current_db_path>>
    /\ mwPc' = "done"
    /\ UNCHANGED <<primary, read_replica, standby, mwBucket, mwLocal, mwDone,
                   mwReadsDone, mwSnapsBefore>>
    /\ WorkerFrame

MigrationWorker ==
    \/ WorkerDownload
    \/ WorkerUpload
    \/ WorkerRefresh

\* ------------------------------------------------------------ API key check
\* The key stored in the tenant's record, and the keys a request may carry.
api_key == "sk_X"
ApiKeys == {"sk_X", "sk_bad"}

\* A handler that stamps the access before it compares the keys.
AccessedBeforeCheck(key) == update_last_accessed("ok")

\* What the handler has done to the tenant's record when it finds that the
\* request's key is not the tenant's: nothing, the comparison follows the
\* lookup directly.
Rejected(key) == UNCHANGED <<last_accessed_at, last_accessed_tz>>

\* The write handler, called with a key that is not the tenant's: 401.
WriteUnauthorized ==
    /\ wpc \in {"idle", "done"}
    /\ \E key \in ApiKeys : key # api_key /\ Rejected(key)
    /\ WriteReturn(401)
    /\ wLog' = <<>>
    /\ UNCHANGED <<now, storage_tier, last_demoted_at, last_updated_at,
                   current_db_path, storeVars, efs, cacheVars, busVars,
                   wid, wTier, wUseEfs, wSnapKey, wRespTs, wVer0, acked,
                   snapOf, notWriter, readsSinceWrite>>

\* The read handler, called with a key that is not the tenant's: 401.
ReadUnauthorized ==
    /\ rpc \in {"idle", "done"}
    /\ \E key \in ApiKeys : key # api_key /\ Rejected(key)
    /\ ReadReturn(ErrorResp(401))
    /\ rTmp' = NoFile
    /\ UNCHANGED <<now, storage_tier, last_demoted_at, last_updated_at,
                   current_db_path, storeVars, efs, cacheVars, busVars,
                   rSeq, rCount, notReader, readsSinceWrite>>

\* ------------------------------------------------------------ demotion job
\* last_ts > idle_cutoff: the tenant is still active.
StillActive(last_ts, cutoff) == last_ts > cutoff

\* The tenants that follow in the scan, once the loop is through with this
\* one.
ScanGoesOn == "processed"

\* The scan reaches the tenant: skip it unless it is HOT and idle.  A
\* last_accessed_at with a UTC offset parses to an aware datetime, whose
\* comparison with the naive cutoff raises and ends the cycle.  repl: the
\* lookup of the replica record, without which the tenant is skipped.
DemoteScan ==
    /\ dpc \in {"idle", "done"}
    /\ dCycles < MaxCycles
    /\ dCycles' = dCycles + 1
    /\ dNow' = now
    /\ dPreEfs' = efs
    /\ dPreDemoted' = last_demoted_at
    /\ dUpload' = "none"
    /\ \E repl \in Outcome :
         IF storage_tier = "HOT" /\ last_accessed_tz
         THEN /\ dSelected' = FALSE
              /\ dpc' = "done"
              /\ dOthers' = "abandoned"
         ELSE IF /\ storage_tier = "HOT"
                 /\ ~StillActive(last_accessed_at, now - COLD_THRESHOLD_HOURS)
                 /\ repl = "ok"
              THEN /\ dSelected' = TRUE
                   /\ dpc' = "upload"
                   /\ dOthers' = "pending"
              ELSE /\ dSelected' = FALSE
                   /\ dpc' = "done"
                   /\ dOthers' = ScanGoesOn
    /\ UNCHANGED <<now, tenantVars, last_updated_at, current_db_path,
                   storeVars, efs,
                   cacheVars, busVars, notDemote>>

\* An upload whose failure is not looked at: the cycle goes on to remove.
ThenRemove(res) == "remove"

\* Where the cycle goes after the upload of the hot-cache file.
AfterDemoteUpload(res) == IF res = "ok" THEN "remove" ELSE "done"

\* Upload the hot-cache file to primary_bucket/db_key when it exists.
DemoteUpload ==
    /\ dpc = "upload"
    /\ IF efs # NoFile
       THEN \E res \in Outcome :
              /\ primary' = IF res = "ok" THEN efs ELSE primary
              /\ dUpload' = res
              /\ dpc' = AfterDemoteUpload(res)
              /\ dOthers' = IF AfterDemoteUpload(res) = "done"
                            THEN ScanGoesOn ELSE dOthers
       ELSE /\ dpc' = "update"
            /\ UNCHANGED <<primary, dUpload, dOthers>>
    /\ UNCHANGED <<now, tenantVars, last_updated_at, current_db_path,
                   snapshots, read_replica,
                   standby, efs, cacheVars, busVars, notDemote, dNow,
                   dSelected, dPreEfs, dPreDemoted, dCycles>>

\* os.remove(efs_path): a failure is a warning.
DemoteRemove ==
    /\ dpc = "remove"
    /\ \E res \in Outcome :
         efs' = IF res = "ok" THEN NoFile ELSE efs
    /\ dpc' = "update"
    /\ UNCHANGED <<now, tenantVars, last_updated_at, current_db_path,
                   storeVars, cacheVars,
                   busVars, notDemote, dNow, dSelected, dPreEfs,
                   dPreDemoted, dUpload, dCycles, dOthers>>

\* SET storage_tier = COLD, last_demoted_at = now; a ClientError skips it.
DemoteUpdate ==
    /\ dpc = "update"
    /\ \E res \in Outcome :
         IF res = "ok"
         THEN /\ storage_tier' = "COLD"
              /\ last_demoted_at' = dNow
         ELSE UNCHANGED <<storage_tier, last_demoted_at>>
    /\ dpc' = "done"
    /\ dOthers' = ScanGoesOn
    /\ UNCHANGED <<now, last_accessed_at, last_accessed_tz, last_updated_at,
                   current_db_path,
                   storeVars, efs, cacheVars, busVars, notDemote, dNow,
                   dSelected, dPreEfs, dPreDemoted, dUpload, dCycles>>

Demote ==
    \/ DemoteScan
    \/ DemoteUpload
    \/ DemoteRemove
    \/ DemoteUpdate

\* ------------------------------------------------------- standby fan-out
\* replication/lambdas/r2_replica_handler.py, one record: download the
\* snapshot from the primary bucket and upload it to standby_bucket/db_path.
\* A failure raises and the message stays on the queue, except the
\* JSONDecodeError of a body that does not parse, which is printed: the
\* handler returns its 200 and the message is deleted.
\* A worker that copies the tenant's database object instead.
DownloadedDb(e) == primary

\* s3_primary.download_file(snapshot_bucket, snapshot_s3_key, ...): the file
\* the worker uploads to the standby bucket.
Downloaded(e) == snapshots[e.snapshot_s3_key]

FanOutProcess ==
    /\ \E e \in queue :
         /\ IF e.json
            THEN /\ snapshots[e.snapshot_s3_key] # NoFile
                 /\ standby' = Downloaded(e)
            ELSE UNCHANGED standby
         /\ queue' = queue \ {e}
         /\ processed' = processed \cup {e}
    /\ UNCHANGED <<now, tenantVars, last_updated_at, current_db_path, primary,
                   snapshots,
                   read_replica, efs, cacheVars, published, procVars,
                   migVars>>

\* At-least-once delivery: a processed event is delivered again.
FanOutRedeliver ==
    /\ \E e \in processed :
         /\ e.json
         /\ snapshots[e.snapshot_s3_key] # NoFile
         /\ standby' = Downloaded(e)
    /\ UNCHANGED <<now, tenantVars, last_updated_at, current_db_path, primary,
                   snapshots,
                   read_replica, efs, cacheVars, busVars, procVars,
                   migVars>>

\* A record whose body is not JSON, from another publisher, reaches the
\* worker's queue.
ForeignRecord == [id |-> 0, snapshot_s3_key |-> 0, json |-> FALSE]

ForeignMessage ==
    /\ ForeignRecord \notin queue \cup processed
    /\ queue' = queue \cup {ForeignRecord}
    /\ UNCHANGED <<now, tenantVars, last_updated_at, current_db_path,
                   storeVars, efs, cacheVars, processed, published, procVars,
                   migVars>>

\* ------------------------------------------------------- migration worker
\* The schema of a database file: for each table name its set of columns,
\* or NoTable.
\* Tables, Columns: names that match SAFE_IDENT; UnsafeNames: one that does
\* not.
Tables == {"a", "b"}
Columns == {"x"}
UnsafeNames == {"a;b"}
TableNames == Tables \cup UnsafeNames
ColumnNames == Columns \cup UnsafeNames
NoTable == {"-"}
TableState == (SUBSET ColumnNames) \cup {NoTable}
\* The schemas whose tables and columns all have safe names.
Schema ==
    {s \in [TableNames -> TableState] :
        \A t \in TableNames :
            s[t] = NoTable \/ (t \in Tables /\ s[t] \subseteq Columns)}

\* The operations over the given names.  table of CREATE_TABLE: the table the
\* statement op['sql'] names; guarded: the statement says IF NOT EXISTS.
\* default: the column definition carries a default.
OperationsOver(tables, columns) ==
    [op : {"CREATE_TABLE"}, table : tables, guarded : BOOLEAN]
    \cup [op : {"DROP_TABLE"}, table : tables]
    \cup [op : {"RENAME_TABLE"}, table : tables, new_name : tables]
    \cup [op : {"ADD_COLUMN"}, table : tables, column : columns,
          nullable : BOOLEAN, default : BOOLEAN]

\* The operations of a migration message that passed the coordinator's
\* checks.
Operation == OperationsOver(Tables, Columns)

OperationList == UNION {[1..n -> Operation] : n \in 0..MaxOps}

\* qident: the name matches SAFE_IDENT; it raises otherwise.
qident(name) == name \notin UnsafeNames

table_exists(conn, table) == conn[table] # NoTable
column_exists(conn, table, column) == column \in conn[table]

\* The outcome of a statement: the schema it leaves, or an exception.
Done(conn) == [ok |-> TRUE, db |-> conn]
Raised(conn) == [ok |-> FALSE, db |-> conn]

\* One operation of apply_ops_to_tenant_db on schema conn.
ApplyOp(conn, op) ==
    CASE op.op = "CREATE_TABLE" ->
            IF table_exists(conn, op.table)
            THEN IF op.guarded THEN Done(conn) ELSE Raised(conn)
            ELSE Done([conn EXCEPT ![op.table] = {}])
      [] op.op = "DROP_TABLE" ->
            IF ~qident(op.table)
            THEN Raised(conn)
            ELSE Done([conn EXCEPT ![op.table] = NoTable])
      [] op.op = "RENAME_TABLE" ->
            IF ~table_exists(conn, op.table)
            THEN Raised(conn)
            ELSE IF table_exists(conn, op.new_name)
                 THEN Done(conn)
                 ELSE IF ~qident(op.table) \/ ~qident(op.new_name)
                      THEN Raised(conn)
                      ELSE Done([conn EXCEPT ![op.new_name] = conn[op.table],
                                             ![op.table] = NoTable])
      [] op.op = "ADD_COLUMN" ->
            IF ~table_exists(conn, op.table)
            THEN Raised(conn)
            ELSE IF ~qident(op.table)
                 THEN Raised(conn)
                 ELSE IF column_exists(conn, op.table, op.column)
                      THEN Done(conn)
                      ELSE IF ~qident(op.column)
                                \/ (~op.nullable /\ ~op.default)
                           THEN Raised(conn)
                           ELSE Done([conn EXCEPT ![op.table] =
                                                     @ \cup {op.column}])

\* The loop over the operations, from the i-th on: the first exception ends it.
RECURSIVE ApplyFrom(_, _, _)
ApplyFrom(conn, operations, i) ==
    IF i > Len(operations)
    THEN Done(conn)
    ELSE LET r == ApplyOp(conn, operations[i])
         IN  IF r.ok THEN ApplyFrom(r.db, operations, i + 1) ELSE r

\* apply_ops_to_tenant_db: the loop, then the look at operations[-1], which
\* raises on an empty list.
apply_ops_to_tenant_db(conn, operations) ==
    IF Len(operations) = 0
    THEN Raised(conn)
    ELSE ApplyFrom(conn, operations, 1)

\* handler_one_message: download the object, apply the operations to the
\* local copy, upload the copy over the object.  An exception anywhere ends
\* the delivery before the upload.
handler_one_message(dl, ul) ==
    IF dl = "fail"
    THEN [result |-> "io_error", file |-> migFile]
    ELSE LET r == apply_ops_to_tenant_db(migFile, migMsg.operations)
         IN  IF ~r.ok
             THEN [result |-> "apply_error", file |-> migFile]
             ELSE IF ul = "fail"
                  THEN [result |-> "io_error", file |-> migFile]
                  ELSE [result |-> "ok", file |-> r.db]

\* lambda_handler, one record: migrate the object, then refresh the hot
\* cache when the message targets the primary bucket of a HOT tenant.  A
\* failed refresh is a warning.
\* A worker that refreshes the hot cache whatever the tenant's tier.
RefreshesAnyTier(out) ==
    /\ out.result = "ok"
    /\ migMsg.bucket = "primary"
    /\ migMsg.refreshHotCache

\* bucket == PRIMARY_BUCKET and tenant_id and refreshHotCache, and the
\* tenant's storage_tier is HOT: the worker invokes the rehydration.
RefreshesHotCache(out) ==
    /\ out.result = "ok"
    /\ migMsg.bucket = "primary"
    /\ migMsg.refreshHotCache
    /\ storage_tier = "HOT"

\* The delivery as logged: how handler_one_message ended, the object it
\* left, and how the refresh of the hot cache went ("none": not invoked).
Delivered(out, refresh) ==
    [result |-> out.result, file |-> out.file, refresh |-> refresh]

MigDeliver ==
    /\ Len(migLog) < MaxDeliveries
    /\ \E dl \in Outcome, ul \in Outcome :
         LET out == handler_one_message(dl, ul)
         IN  /\ migFile' = out.file
             /\ IF RefreshesHotCache(out)
                THEN \/ /\ \E meta \in Outcome : Rehydrated(primary, meta)
                        /\ migLog' = Append(migLog, Delivered(out, "ok"))
                     \/ /\ UNCHANGED <<efs, tenantVars, current_db_path>>
                        /\ migLog' = Append(migLog, Delivered(out, "failed"))
                ELSE /\ UNCHANGED <<efs, tenantVars, current_db_path>>
                     /\ migLog' = Append(migLog, Delivered(out, "none"))
    /\ UNCHANGED <<now, last_updated_at, storeVars, cacheVars, busVars,
                   procVars, migMsg>>

\* -------------------------------------------------- migration coordinator
\* The tenants of the tenants table, in the order the parent_schema_index
\* query returns them, and the one TEMPLATE schema they may be tied to.
CoTenants == <<"t1", "t2">>
TenantIds == {CoTenants[i] : i \in 1..Len(CoTenants)}
TemplateId == "tmpl"
\* The keys schemas/{id}.sql of the schema artifacts.
SchemaKeys == {TemplateId} \cup TenantIds
NoSchema == [t \in TableNames |-> {"absent"}]

\* The operations a request may carry: any name, safe or not.
RequestOperation ==
    {o \in OperationsOver(TableNames, ColumnNames) :
        o.op = "ADD_COLUMN" => (o.nullable /\ ~o.default)}
RequestOperationList == UNION {[1..n -> RequestOperation] : n \in 0..MaxOps}
Request ==
    [scope : {"TENANT"}, tenant : {CoTenants[1]},
     operations : RequestOperationList, apiKey : BOOLEAN]
    \cup [scope : {"TEMPLATE"}, tenant : {""},
          operations : RequestOperationList, apiKey : {TRUE}]
NoRequest == [scope |-> "", tenant |-> "", operations |-> <<>>,
              apiKey |-> FALSE]

Buckets == <<"primary", "read_replica", "standby">>

\* The three ids lambda_handler passes in TENANT scope, one per bucket.
TenantScopeId(tenant_id, bucket) ==
    CASE bucket = "primary" -> <<tenant_id>>
      [] bucket = "read_replica" -> <<tenant_id, "read-only-replica">>
      [] bucket = "standby" -> <<tenant_id, "standby-replica">>

\* The id lambda_handler passes for the primary bucket in TEMPLATE scope.
TemplateScopeId(schema_id, tenant_id) == <<schema_id, tenant_id>>

\* send_tenant_migration_job_to_sqs: the message, its MessageGroupId being
\* str(id).
send_tenant_migration_job_to_sqs(id, bucket, schema_s3_key, tenant_id) ==
    [MessageGroupId |-> id, bucket |-> bucket,
     schemaS3Key |-> schema_s3_key, tenantId |-> tenant_id,
     refreshHotCache |-> TRUE]

\* The key of the artifact the request in flight rewrites.
dest_key == IF coReq.scope = "TENANT" THEN coReq.tenant ELSE TemplateId

\* The request ends: with the response, or with the exception that leaves
\* lambda_handler.
CoordReturn(status, error) ==
    /\ cpc' = "done"
    /\ coStatus' = status
    /\ coError' = error

CoordGoto(next) ==
    /\ cpc' = next
    /\ UNCHANGED <<coStatus, coError>>

\* lambda_handler up to the copy of the parent schema: the lookups, and in
\* TENANT scope the comparison of the api key.
CoordBegin ==
    /\ cpc \in {"idle", "done"}
    /\ coInbox # <<>>
    /\ LET req == Head(coInbox)
       IN  /\ coReq' = req
           /\ coInbox' = Tail(coInbox)
           /\ coSent' = 0
           /\ coWrote' = {}
           /\ coPre' = NoSchema
           /\ coPut' = FALSE
           /\ IF req.scope = "TENANT"
              THEN /\ coTenants' = <<req.tenant>>
                   /\ IF req.apiKey
                      THEN /\ cpc' = "copy_parent"
                           /\ coStatus' = 0
                           /\ coError' = "none"
                      ELSE CoordReturn(401, "none")
              ELSE /\ coTenants' =
                         SelectSeq(CoTenants,
                                   LAMBDA t : coParent[t] = TemplateId)
                   /\ cpc' = "apply"
                   /\ coStatus' = 0
                   /\ coError' = "none"
    /\ UNCHANGED <<coSchemas, coStandbySchemas, coParent, coQueue,
                   coInFlight, coDeleted>>
    /\ UNCHANGED notCoord

\* TENANT scope: a tenant tied to a parent schema gets a copy of it under
\* its own key.
CoordCopyParent ==
    /\ cpc = "copy_parent"
    /\ IF coParent[coReq.tenant] # "NULL"
       THEN \E res \in Outcome :
              IF res = "ok" /\ coSchemas[coParent[coReq.tenant]] # NoSchema
              THEN /\ coSchemas' =
                         [coSchemas EXCEPT ![dest_key] =
                                              coSchemas[coParent[coReq.tenant]]]
                   /\ coWrote' = coWrote \cup {<<"primary", dest_key>>}
                   /\ CoordGoto("apply")
              ELSE /\ CoordReturn(0, "ClientError")
                   /\ UNCHANGED <<coSchemas, coWrote>>
       ELSE /\ CoordGoto("apply")
            /\ UNCHANGED <<coSchemas, coWrote>>
    /\ UNCHANGED <<coInbox, coReq, coTenants, coStandbySchemas, coParent,
                   coQueue, coInFlight, coDeleted, coSent, coPre, coPut>>
    /\ UNCHANGED notCoord

\* After apply_ops_to_schema_sql: an exception leaves lambda_handler, a
\* return leads to the copy into the standby bucket.
ThenCopyStandby(error) == "copy_standby"
AfterApply(error) == IF error = "none" THEN "copy_standby" ELSE "done"

\* apply_ops_to_schema_sql: get the artifact, replay it and the operations
\* on an in-memory database, put the dump over the artifact.
apply_ops_to_schema_sql(old, operations, getRes, putRes) ==
    IF getRes = "fail" \/ old = NoSchema
    THEN [error |-> "ClientError", put |-> FALSE, schema |-> old]
    ELSE LET r == IF Len(operations) = 0
                  THEN Raised(old)
                  ELSE ApplyFrom(old, operations, 1)
         IN  IF ~r.ok
             THEN [error |-> "ValueError", put |-> FALSE, schema |-> old]
             ELSE IF putRes = "fail"
                  THEN [error |-> "ClientError", put |-> FALSE,
                        schema |-> old]
                  ELSE [error |-> "none", put |-> TRUE, schema |-> r.db]

CoordApply ==
    /\ cpc = "apply"
    /\ \E getRes \in Outcome, putRes \in Outcome :
         LET out == apply_ops_to_schema_sql(coSchemas[dest_key],
                                            coReq.operations, getRes, putRes)
         IN  /\ coPre' = coSchemas[dest_key]
             /\ coSchemas' = [coSchemas EXCEPT ![dest_key] = out.schema]
             /\ coPut' = out.put
             /\ coWrote' = IF out.put
                           THEN coWrote \cup {<<"primary", dest_key>>}
                           ELSE coWrote
             /\ cpc' = AfterApply(out.error)
             /\ coError' = out.error
             /\ UNCHANGED coStatus
    /\ UNCHANGED <<coInbox, coReq, coTenants, coStandbySchemas, coParent,
                   coQueue, coInFlight, coDeleted, coSent>>
    /\ UNCHANGED notCoord

\* The copy of the rewritten artifact into the standby bucket.
CoordCopyStandby ==
    /\ cpc = "copy_standby"
    /\ \E res \in Outcome :
         IF res = "ok" /\ coSchemas[dest_key] # NoSchema
         THEN /\ coStandbySchemas' =
                    [coStandbySchemas EXCEPT ![dest_key] = coSchemas[dest_key]]
              /\ coWrote' = coWrote \cup {<<"standby", dest_key>>}
              /\ CoordGoto("send")
         ELSE /\ CoordReturn(0, "ClientError")
              /\ UNCHANGED <<coStandbySchemas, coWrote>>
    /\ UNCHANGED <<coInbox, coReq, coTenants, coSchemas, coParent, coQueue,
                   coInFlight, coDeleted, coSent, coPre, coPut>>
    /\ UNCHANGED notCoord

\* The tenant and the bucket of the next send of the request in flight.
SendTenant == coTenants[(coSent \div Len(Buckets)) + 1]
SendBucket == Buckets[(coSent % Len(Buckets)) + 1]

\* The next call of send_tenant_migration_job_to_sqs.  In TEMPLATE scope the
\* arguments of the calls for the two replica buckets name dest_key and
\* tenantName, locals that only the TENANT branch assigns: evaluating them
\* raises UnboundLocalError before the call.
CoordSend ==
    /\ cpc = "send"
    /\ coSent < Len(coTenants) * Len(Buckets)
    /\ IF coReq.scope = "TEMPLATE" /\ SendBucket # "primary"
       THEN /\ CoordReturn(0, "UnboundLocalError")
            /\ UNCHANGED <<coQueue, coSent>>
       ELSE \E res \in Outcome :
              IF res = "ok"
              THEN /\ coQueue' =
                        Append(coQueue,
                               send_tenant_migration_job_to_sqs(
                                   IF coReq.scope = "TENANT"
                                   THEN TenantScopeId(SendTenant, SendBucket)
                                   ELSE TemplateScopeId(TemplateId, SendTenant),
                                   SendBucket, dest_key, SendTenant))
                   /\ coSent' = coSent + 1
                   /\ CoordGoto("send")
              ELSE /\ CoordReturn(0, "ClientError")
                   /\ UNCHANGED <<coQueue, coSent>>
    /\ UNCHANGED <<coInbox, coReq, coTenants, coSchemas, coStandbySchemas,
                   coParent, coInFlight, coDeleted, coWrote, coPre, coPut>>
    /\ UNCHANGED notCoord

\* After the sends: in TENANT scope the schema record is put and the
\* tenant's parent_schema_ref becomes "NULL"; then the 202.
CoordFinish ==
    /\ cpc = "send"
    /\ coSent = Len(coTenants) * Len(Buckets)
    /\ IF coReq.scope = "TENANT"
       THEN \E putItem \in Outcome, updateItem \in Outcome :
              IF putItem = "ok" /\ updateItem = "ok"
              THEN /\ coParent' = [coParent EXCEPT ![coReq.tenant] = "NULL"]
                   /\ CoordReturn(202, "none")
              ELSE /\ CoordReturn(0, "ClientError")
                   /\ UNCHANGED coParent
       ELSE /\ CoordReturn(202, "none")
            /\ UNCHANGED coParent
    /\ UNCHANGED <<coInbox, coReq, coTenants, coSchemas, coStandbySchemas,
                   coQueue, coInFlight, coDeleted, coSent, coWrote, coPre,
                   coPut>>
    /\ UNCHANGED notCoord

Coordinate ==
    \/ CoordBegin
    \/ CoordCopyParent
    \/ CoordApply
    \/ CoordCopyStandby
    \/ CoordSend
    \/ CoordFinish

\* The FIFO queue hands a message to the worker when no earlier message of
\* its group is still on the queue.
Deliverable(i) ==
    /\ i \in 1..Len(coQueue)
    /\ i \notin coInFlight \cup coDeleted
    /\ \A j \in 1..(i - 1) :
         coQueue[j].MessageGroupId = coQueue[i].MessageGroupId
             => j \in coDeleted

QueueDeliver ==
    /\ \E i \in 1..Len(coQueue) :
         /\ Deliverable(i)
         /\ coInFlight' = coInFlight \cup {i}
    /\ UNCHANGED <<coInbox, coReq, cpc, coTenants, coSchemas,
                   coStandbySchemas, coParent, coQueue, coDeleted, coSent,
                   coError, coStatus, coWrote, coPre, coPut>>
    /\ UNCHANGED notCoord

\* The worker returns and the message is deleted.
QueueDelete ==
    /\ \E i \in coInFlight :
         /\ coInFlight' = coInFlight \ {i}
         /\ coDeleted' = coDeleted \cup {i}
    /\ UNCHANGED <<coInbox, coReq, cpc, coTenants, coSchemas,
                   coStandbySchemas, coParent, coQueue, coSent, coError,
                   coStatus, coWrote, coPre, coPut>>
    /\ UNCHANGED notCoord

\* ------------------------------------------------------------------ clock
Tick ==
    /\ now < MaxTime
    /\ now' = now + 1
    /\ UNCHANGED <<tenantVars, last_updated_at, current_db_path, storeVars,
                   efs, cacheVars,
                   busVars, procVars, migVars>>

\* ---------------------------------------------------------- specification
\* The tenant as created: cold, nothing on the hot cache.
InitTenant ==
    /\ storage_tier = "COLD"
    /\ last_accessed_at = 0
    /\ last_accessed_tz = FALSE
    /\ primary = {}
    /\ efs = NoFile

\* No migration message.
InitMigration ==
    /\ migFile = [t \in TableNames |-> NoTable]
    /\ migMsg = [bucket |-> "primary", operations |-> <<>>,
                 refreshHotCache |-> TRUE]
    /\ migLog = <<>>

InitRest ==
    /\ now = 0
    /\ last_demoted_at = -1
    /\ last_updated_at = -1
    /\ snapshots = [t \in Times |-> NoFile]
    /\ read_replica = {}
    /\ standby = {}
    /\ cache_ver = 0
    /\ cache = [v \in 0..MaxWrites |-> NoEntry]
    /\ queue = {}
    /\ processed = {}
    /\ published = [w \in Effects |-> 0]
    /\ wpc = "idle"
    /\ wid = 0
    /\ wTier = "COLD"
    /\ wUseEfs = FALSE
    /\ wTmp = NoFile
    /\ wSnap = NoFile
    /\ wSnapKey = 0
    /\ wLog = <<>>
    /\ wStatus = 0
    /\ wRespTs = 0
    /\ wVer0 = 0
    /\ acked = {}
    /\ snapOf = [w \in Effects |-> NoFile]
    /\ rpc = "idle"
    /\ rTier = "COLD"
    /\ rUseCache = FALSE
    /\ rResult = NoFile
    /\ rSource = ""
    /\ rQVer = 0
    /\ rResp = NoResp
    /\ rTmp = NoFile
    /\ sResp = NoStandbyResp
    /\ tenantRecord = TRUE
    /\ replicaRecord = TRUE
    /\ delPc = "idle"
    /\ delPath = Unset
    /\ delAttempted = {}
    /\ delStatus = 0
    /\ mwPc = "idle"
    /\ mwBucket = ""
    /\ mwLocal = NoFile
    /\ mwDone = {}
    /\ mwReadsDone = -1
    /\ mwSnapsBefore = {}
    /\ rSeq = 0
    /\ rCount = 0
    /\ readsSinceWrite = -1
    /\ dpc = "idle"
    /\ dNow = 0
    /\ dSelected = FALSE
    /\ dPreEfs = NoFile
    /\ dPreDemoted = -1
    /\ dUpload = "none"
    /\ dCycles = 0
    /\ dOthers = "pending"

\* No migration request.
InitCoordRest ==
    /\ coReq = NoRequest
    /\ cpc = "idle"
    /\ coTenants = <<>>
    /\ coStandbySchemas = [k \in SchemaKeys |-> NoSchema]
    /\ coQueue = <<>>
    /\ coInFlight = {}
    /\ coDeleted = {}
    /\ coSent = 0
    /\ coError = "none"
    /\ coStatus = 0
    /\ coWrote = {}
    /\ coPre = NoSchema
    /\ coPut = FALSE

\* The tenant record names its database file; the rehydration handler was
\* not invoked on its own.
InitHyd ==
    /\ current_db_path = db_path
    /\ hResult = "none"
    /\ hKey = Unset
    /\ hMeta = "none"
    /\ hPrePath = Unset
    /\ hAt = 0

InitCoord ==
    /\ coInbox = <<>>
    /\ coSchemas = [k \in SchemaKeys |-> NoSchema]
    /\ coParent = [t \in TenantIds |-> "NULL"]
    /\ InitCoordRest

Init == InitTenant /\ InitMigration /\ InitRest /\ InitCoord /\ InitHyd

Next ==
    \/ Write
    \/ Read
    \/ FanOutProcess
    \/ FanOutRedeliver
    \/ Tick

Spec == Init /\ [][Next]_vars

\* The write pipeline and the fan-out worker alone, the worker being
\* scheduled as long as an event waits on the queue.
FairNext ==
    \/ Write
    \/ FanOutProcess
    \/ FanOutRedeliver
    \/ Tick

\* The tenant is cold, or an earlier read has made it hot.
FairInit ==
    /\ \/ storage_tier = "COLD" /\ efs = NoFile
       \/ storage_tier = "HOT" /\ efs \in {NoFile, {}}
    /\ last_accessed_at = 0
    /\ last_accessed_tz = FALSE
    /\ primary = {}
    /\ InitMigration
    /\ InitRest
    /\ InitCoord
    /\ InitHyd

FairSpec == FairInit /\ [][FairNext]_vars /\ WF_vars(FanOutProcess)

\* The demotion job on a tenant in any state the data plane can leave it in.
DemoteInit ==
    /\ storage_tier \in {"HOT", "COLD"}
    /\ last_accessed_at \in Times
    /\ last_accessed_tz \in BOOLEAN
    /\ primary \in DB
    /\ efs \in File
    /\ InitMigration
    /\ InitRest
    /\ InitCoord
    /\ InitHyd

DemoteNext ==
    \/ Demote
    \/ Tick

DemoteSpec == DemoteInit /\ [][DemoteNext]_vars

\* The migration worker on any target schema and any message.
MigInit ==
    /\ storage_tier \in {"HOT", "COLD"}
    /\ last_accessed_at = 0
    /\ last_accessed_tz = FALSE
    /\ primary = {}
    /\ efs = NoFile
    /\ migFile \in Schema
    /\ migMsg \in [bucket : {"primary", "read_replica", "standby"},
                    operations : OperationList,
                    refreshHotCache : BOOLEAN]
    /\ migLog = <<>>
    /\ InitRest
    /\ InitCoord
    /\ InitHyd

MigNext == MigDeliver

MigSpec == MigInit /\ [][MigNext]_vars

\* The migration coordinator and its queue alone.  The template artifact
\* exists; a tenant is tied to it or has an artifact of its own.
InitArtifacts ==
    \E s \in Schema :
        /\ coParent \in [TenantIds -> {TemplateId, "NULL"}]
        /\ coSchemas = [k \in SchemaKeys |->
                           IF k = TemplateId \/ coParent[k] = "NULL"
                           THEN s ELSE NoSchema]

\* One request, of either scope.
CoordInit ==
    /\ InitTenant
    /\ InitMigration
    /\ InitRest
    /\ InitCoordRest
    /\ InitHyd
    /\ InitArtifacts
    /\ \E req \in Request : coInbox = <<req>>

CoordNext == Coordinate

CoordSpec == CoordInit /\ [][CoordNext]_vars

\* Two requests, one after the other, with the queue delivering to the
\* worker.  The operations are the same in both: a DROP_TABLE, which every
\* artifact accepts.
FifoRequest ==
    {req \in Request :
        /\ req.operations = <<[op |-> "DROP_TABLE", table |-> "a"]>>
        /\ req.apiKey}

FifoInit ==
    /\ InitTenant
    /\ InitMigration
    /\ InitRest
    /\ InitCoordRest
    /\ InitHyd
    /\ InitArtifacts
    /\ \E r1 \in FifoRequest, r2 \in FifoRequest : coInbox = <<r1, r2>>

FifoNext == Coordinate \/ QueueDeliver \/ QueueDelete

FifoSpec == FifoInit /\ [][FifoNext]_vars

\* The rehydration handler alone, invoked for a tenant in any tier, with or
\* without a hot-cache file and a current_db_path.
HydInit ==
    /\ storage_tier \in {"HOT", "COLD"}
    /\ last_accessed_at = 0
    /\ last_accessed_tz \in BOOLEAN
    /\ primary \in DB
    /\ efs \in File
    /\ current_db_path \in DbPaths \cup {Unset}
    /\ hResult = "none"
    /\ hKey = Unset
    /\ hMeta = "none"
    /\ hPrePath = Unset
    /\ hAt = 0
    /\ InitMigration
    /\ InitRest
    /\ InitCoord

HydNext == Rehydrate \/ Tick

HydSpec == HydInit /\ [][HydNext]_vars

\* The write pipeline and the fan-out worker, with a record that does not
\* parse arriving on the worker's queue.
StandbyNext == FairNext \/ ForeignMessage

StandbySpec == FairInit /\ [][StandbyNext]_vars

\* The write pipeline and the fan-out worker, with requests that carry a key
\* that is not the tenant's.
AuthNext == FairNext \/ WriteUnauthorized \/ ReadUnauthorized

AuthSpec == FairInit /\ [][AuthNext]_vars

\* The write pipeline and the fan-out worker, with reads of the standby.
StandbyReadNext == FairNext \/ StandbyRead

StandbyReadSpec == FairInit /\ [][StandbyReadNext]_vars

\* The deletion of a tenant in any state the data plane can leave it in:
\* hot or cold, with or without current_db_path in its record.
DeleteInit == HydInit

DeleteNext == delete_tenant

DeleteSpec == DeleteInit /\ [][DeleteNext]_vars

\* Writes in sequence with reads, and the rehydrations the reads invoke,
\* running alongside.
SequentialNext == Write \/ Read

SequentialSpec == Init /\ [][SequentialNext]_vars

\* The write pipeline with the migration worker running alongside.
MigRaceNext == Write \/ MigrationWorker

MigRaceSpec == FairInit /\ [][MigRaceNext]_vars

\* The demotion job with reads of the tenant running alongside.
DemoteRaceNext == Demote \/ Read \/ Tick

DemoteRaceSpec == DemoteInit /\ [][DemoteRaceNext]_vars

\* Every handler that has the tenant's data or record in hand: writes, reads,
\* standby reads, the fan-out worker, the migration worker, the rehydration
\* handler invoked directly and the demotion job.
\* Each of them runs alongside the write pipeline, one kind of handler per
\* behaviour: a handler takes a step only while no handler of another kind
\* has run.
NoRead == rpc = "idle"
NoStandbyRead == sResp = NoStandbyResp
NoFanOut == processed = {}
NoMigration == mwPc = "idle"
NoRehydrate == hResult = "none"
NoDemote == dpc = "idle"

VersionNext ==
    \/ Write
    \/ Tick
    \/ /\ NoStandbyRead /\ NoFanOut /\ NoMigration /\ NoRehydrate /\ NoDemote
       /\ Read
    \/ /\ NoRead /\ NoFanOut /\ NoMigration /\ NoRehydrate /\ NoDemote
       /\ StandbyRead
    \/ /\ NoRead /\ NoStandbyRead /\ NoMigration /\ NoRehydrate /\ NoDemote
       /\ FanOutProcess
    \/ /\ NoRead /\ NoStandbyRead /\ NoFanOut /\ NoRehydrate /\ NoDemote
       /\ MigrationWorker
    \/ /\ NoRead /\ NoStandbyRead /\ NoFanOut /\ NoMigration /\ NoDemote
       /\ Rehydrate
    \/ /\ NoRead /\ NoStandbyRead /\ NoFanOut /\ NoMigration /\ NoRehydrate
       /\ Demote

VersionSpec == FairInit /\ [][VersionNext]_vars

\* Cacheable reads beside the migration worker.
CacheMigSpec == FairInit /\ [][Read \/ MigrationWorker]_vars

\* Writes and their replication beside the migration worker.
MigReplSpec == FairInit /\ [][Write \/ FanOutProcess \/ MigrationWorker]_vars

\* Requests to the read handler, statements that change the schema among
\* them, and to the standby read handler.
ReadFrameSpec ==
    FairInit /\ [][Read \/ ReadExecuteSchema \/ StandbyRead]_vars

\* ------------------------------------------------- write pipeline: claims
\* The write request has returned 200.
WriteSucceeded == wpc = "done" /\ wStatus = 200

\* C1: when a write request has returned success, the primary object holds
\* the working database with the write's effect, the snapshot object of
\* that write exists under its key and holds the effect, and the replica
\* record's last_updated_at is the timestamp the response carries.
C1_SuccessfulWriteIsDurable ==
    WriteSucceeded =>
        /\ wid \in primary
        /\ primary # NoFile
        /\ snapshots[wSnapKey] # NoFile
        /\ wid \in snapshots[wSnapKey]
        /\ last_updated_at = wRespTs

\* A second write on the hot cache has returned success.
C1_Witness == WriteSucceeded /\ wid = MaxWrites /\ wUseEfs /\ acked = Effects

\* C2: a write that returned success left the tenant's cache version
\* strictly above the one it found, and the first read begun after it is
\* not answered from the cache.
C2_SuccessfulWriteBumpsVersion ==
    /\ WriteSucceeded => cache_ver > wVer0
    /\ (rpc = "done" /\ rSeq = 1 /\ rResp.status = 200) => ~rResp.cache_hit

\* C3: a read answered from the cache returns a payload computed under the
\* cache version that is current when it is answered: no version bump lies
\* between the query that produced the payload and the hit.
C3_HitReflectsBumpedWrites ==
    (rpc = "done" /\ rResp.cache_hit) => rResp.qver = rResp.ver

\* C4: when a write request has returned success, the read-replica object
\* equals the primary object.
C4_ReadReplicaEqualsPrimary == WriteSucceeded => read_replica = primary

\* Every occurrence of step `later` in the request's log comes after a
\* successful completion of step `earlier`.
CompletedBefore(earlier, later) ==
    \A j \in DOMAIN wLog :
        wLog[j][1] = later =>
            \E i \in 1..(j - 1) : wLog[i] = <<earlier, "ok">>

\* C5: within one write request the snapshot is created before the primary
\* upload, the primary upload completes before the snapshot upload, the
\* snapshot upload completes before the publish, and the cache version is
\* bumped only after the primary upload completed.
C5_PipelineOrder ==
    /\ CompletedBefore("snapshot", "upload_db")
    /\ CompletedBefore("upload_db", "upload_snapshot")
    /\ CompletedBefore("upload_snapshot", "publish")
    /\ CompletedBefore("upload_db", "bump")

\* A request ran the whole pipeline, every step succeeding.
C5_Witness ==
    wLog = <<<<"execute", "ok">>, <<"snapshot", "ok">>, <<"upload_db", "ok">>,
             <<"upload_snapshot", "ok">>, <<"publish", "ok">>,
             <<"update_replica", "ok">>, <<"bump", "ok">>>>

\* C6: a write request that returned success published exactly one
\* replication event.
C6_SuccessMeansPublishedOnce == WriteSucceeded => published[wid] = 1

\* ------------------------------------------------------ fan-out: claims
\* The standby object is the snapshot of write w or of a later write.
StandbyHas(w) ==
    \E later \in Effects :
        later >= w /\ snapOf[later] # NoFile /\ standby = snapOf[later]

\* C7: the snapshot of every write that returned success, or that of a
\* later write, eventually is the standby object.
C7_AckedWriteReachesStandby ==
    \A w \in Effects : (w \in acked) ~> StandbyHas(w)

\* ----------------------------------------------------- demotion: claims
\* A cycle that selected the tenant has ended.
DemotionEnded == dpc = "done" /\ dSelected

\* C8: a demotion cycle of the tenant ends either with the tenant COLD, the
\* hot-cache file absent and the primary object equal to the file the
\* cycle found, or with the tenant HOT and the hot-cache file as found.
C8_DemotionAllOrNothing ==
    DemotionEnded =>
        \/ /\ storage_tier = "COLD"
           /\ efs = NoFile
           /\ dPreEfs # NoFile => primary = dPreEfs
        \/ /\ storage_tier = "HOT"
           /\ efs = dPreEfs

\* C9: a cycle whose upload failed leaves the hot-cache file in place, the
\* tenant HOT and last_demoted_at as it was.
C9_UploadFailureKeepsHot ==
    (dpc = "done" /\ dUpload = "fail") =>
        /\ efs # NoFile
        /\ efs = dPreEfs
        /\ storage_tier = "HOT"
        /\ last_demoted_at = dPreDemoted

\* A cycle selected the tenant and ended on a failed upload.
C9_Witness == DemotionEnded /\ dUpload = "fail"

\* ---------------------------------------------------- migration: claims
\* C10: once a delivery of the migration message has applied its operation
\* list, every later delivery applies it too and leaves the file as the
\* first one left it.
C10_RedeliveryIsIdempotent ==
    \A i \in DOMAIN migLog, j \in DOMAIN migLog :
        (i < j /\ migLog[i].result = "ok") =>
            /\ migLog[j].result # "apply_error"
            /\ migLog[j].file = migLog[i].file

\* -------------------------------------------------- coordinator: claims
\* The operation names a table, a new name or a column that does not match
\* SAFE_IDENT.
UnsafeOperation(o) ==
    \/ o.op \in {"DROP_TABLE", "RENAME_TABLE", "ADD_COLUMN"}
          /\ o.table \in UnsafeNames
    \/ o.op = "RENAME_TABLE" /\ o.new_name \in UnsafeNames
    \/ o.op = "ADD_COLUMN" /\ o.column \in UnsafeNames

HasUnsafeOperation ==
    \E i \in DOMAIN coReq.operations : UnsafeOperation(coReq.operations[i])

\* C11: a request with an operation whose table, new_name or column name is
\* unsafe writes no object, enqueues no message and does not end with 202.
C11_UnsafeIdentifierRejected ==
    HasUnsafeOperation =>
        /\ coWrote = {}
        /\ coSent = 0
        /\ coStatus # 202

SentMessages ==
    {coQueue[i] : i \in (Len(coQueue) - coSent + 1)..Len(coQueue)}

\* C13: a request that ends without a rejected operation, a refused api
\* key or a failed service call has enqueued, for each tenant tied to the
\* schema, one message per bucket and nothing else.
C13_ThreeMessagesPerTenant ==
    (cpc = "done" /\ coStatus # 401
        /\ coError \notin {"ValueError", "ClientError"}) =>
        /\ coSent = Len(coTenants) * Len(Buckets)
        /\ \A i \in 1..Len(coTenants), b \in 1..Len(Buckets) :
              \E m \in SentMessages :
                  m.tenantId = coTenants[i] /\ m.bucket = Buckets[b]

\* Two messages migrate the same file: the same tenant's object in the
\* same bucket.
SameFile(i, j) ==
    /\ coQueue[i].tenantId = coQueue[j].tenantId
    /\ coQueue[i].bucket = coQueue[j].bucket

\* C14: of two messages that migrate the same file, the later enqueued is
\* handed to the worker only after the earlier has been processed and
\* deleted.
C14_SameFileInOrder ==
    \A i \in 1..Len(coQueue), j \in 1..Len(coQueue) :
        (i < j /\ SameFile(i, j) /\ j \in coInFlight \cup coDeleted)
            => i \in coDeleted

\* -------------------------------------------------------- cache: claims
\* C15: with no write to the tenant at all, a read answered from the cache
\* returns the payload the populating read returned: the db_source of the
\* hit is the db_source the populating read gave (the data and the
\* storage_tier are those of the entry).
C15_HitRepeatsPopulatingRead ==
    (rpc = "done" /\ rResp.cache_hit /\ wpc = "idle") =>
        rResp.db_source = rResp.returned

\* What a read returns with the cache disabled: the hot-cache file when
\* there is one, else the primary object (rehydrated) or the read replica.
CacheDisabledData == IF efs # NoFile THEN {efs} ELSE {primary, read_replica}

\* A read ends on a cache hit after the version GET of its lookup raised,
\* no write being in flight, the last write having returned 200 and every
\* acknowledged write having bumped the version.
HitAfterFailedVersionRead ==
    /\ rpc = "cache_lookup"
    /\ rpc' = "done"
    /\ rResp'.cache_hit
    /\ rResp'.ver_failed
    /\ WriteSucceeded
    /\ cache_ver = Cardinality(acked)

\* C16: a read whose version GET raised returns the data it would return
\* with the cache disabled.
C16_CacheFailureIsBypassed ==
    [][HitAfterFailedVersionRead => rResp'.data \in CacheDisabledData]_vars

\* -------------------------------------------------- rehydration: claims
\* C17: when the rehydration handler returns its 200, the hot-cache file
\* exists and the tenant record is HOT with last_accessed_at stamped at the
\* time of the call.
C17_RehydrationSuccessIsComplete ==
    hResult = "ok" =>
        /\ efs # NoFile
        /\ storage_tier = "HOT"
        /\ last_accessed_tz
        /\ last_accessed_at = hAt

\* C18: an invocation that found current_db_path set leaves it as found,
\* whatever key the event names; one that found it unset and updated the
\* record leaves the event's key in it.
C18_CurrentDbPathKept ==
    hResult # "none" =>
        /\ hPrePath # Unset => current_db_path = hPrePath
        /\ (hPrePath = Unset /\ hMeta = "ok") => current_db_path = hKey

\* The handler updated the record of a tenant whose current_db_path was
\* set, the event naming another key.
C18_Witness ==
    /\ hResult = "ok"
    /\ hMeta = "ok"
    /\ hPrePath # Unset
    /\ hKey # hPrePath

\* ------------------------------------------------ demotion scan: claims
\* C19: a cycle that met a HOT tenant whose last_accessed_at carries a UTC
\* offset (the form rehydration writes) and did not select it has left the
\* tenant HOT with its hot-cache file as found, and has gone on to the
\* tenants that follow in the scan.
C19_UnhandledTimestampSkipsOneTenant ==
    (dpc = "done" /\ ~dSelected /\ storage_tier = "HOT" /\ last_accessed_tz)
        => /\ efs = dPreEfs
           /\ dOthers = "processed"

\* ------------------------------------------------ worker failure: claims
\* C20: no record whose body failed to parse is among the records the
\* fan-out worker reported as processed.
C20_FailedRecordNotProcessed == \A e \in processed : e.json

C22_ReadLeavesNoTempFile == rpc = "done" => rTmp = NoFile

\* ------------------------------------------------ source selection: claims
\* C23: a read that runs its query for a tenant whose storage_tier is COLD
\* and which has no hot-cache file is served from the read-replica bucket:
\* its result carries db_source S3_READ_REPLICA and storage_tier COLD.
C23_ColdReadServedFromReadReplica ==
    [][(rpc = "execute" /\ rTier = "COLD" /\ storage_tier = "COLD"
            /\ efs = NoFile)
         => /\ rpc' = "populate" => rSource' = "S3_READ_REPLICA"
            /\ (rpc' = "done" /\ rResp'.status = 200)
                 => /\ rResp'.db_source = "S3_READ_REPLICA"
                    /\ rResp'.storage_tier = "COLD"]_vars

\* ------------------------------------------------ failed writes: claims
\* C24: a write working in place on the hot-cache file of a HOT tenant that
\* ends with an error in the statement or the snapshot step leaves the
\* hot-cache file as it was: the file changes only if the snapshot was made.
C24_FailedWriteKeepsHotFile ==
    [][(wpc = "execute" /\ wUseEfs /\ wpc' = "done") => efs' = efs]_vars

\* ------------------------------------------------ authorization: claims
\* A step in which a write, or a read, is answered with 401.
RejectedStep ==
    \/ wpc \in {"idle", "done"} /\ wpc' = "done" /\ wStatus' = 401
       /\ writerVars' # writerVars
    \/ rpc \in {"idle", "done"} /\ rpc' = "done" /\ rResp'.status = 401
       /\ readerVars' # readerVars

\* C25: a request whose api_key is not the tenant's is answered with 401 and
\* has no side effect: the tenant's record (last_accessed_at, tier), the
\* hot-cache file, the buckets, the cache, the replica record and the bus
\* are as they were before the request.
C25_UnauthorizedHasNoSideEffect ==
    [][RejectedStep
         => UNCHANGED <<tenantVars, current_db_path, last_updated_at,
                        storeVars, efs, cacheVars, busVars>>]_vars

\* Both handlers have rejected a request for a HOT tenant whose hot-cache
\* file is missing and whose last access is older than the clock: a stamp
\* or a rehydration would have shown.
C25_Witness ==
    /\ wpc = "done" /\ wStatus = 401
    /\ rpc = "done" /\ rResp.status = 401
    /\ storage_tier = "HOT" /\ efs = NoFile
    /\ last_accessed_at < now

\* ------------------------------------------------ standby content: claims
\* C26: the standby object never contains the effect of a write whose
\* replication event the fan-out worker has not processed.
C26_StandbyHasOnlyProcessedWrites ==
    standby # NoFile
        => \A w \in standby : \E e \in processed : e.json /\ e.id = w

\* C26, amended: the standby object is written only by the fan-out worker,
\* as a copy of the snapshot object named by an event it has processed; no
\* step of the write pipeline changes it.
C26_StandbyWrittenByFanOutOnly ==
    [][standby' # standby
         => /\ UNCHANGED writerVars
            /\ \E e \in processed' :
                 e.json /\ standby' = snapshots[e.snapshot_s3_key]]_vars

\* The standby object holds the first write, and the pipeline has put a
\* second one into the primary object that the standby object lacks.
C26_Witness ==
    /\ standby # NoFile
    /\ 1 \in standby
    /\ 2 \in primary
    /\ 2 \notin standby

\* --------------------------------------------------- standby read: claims
\* C27: a standby read changes neither the query result cache nor anything
\* else of the tenant (record, hot-cache file, buckets, bus), and the data
\* it returns is the content of the standby bucket's object.
C27_StandbyReadUsesStandbyOnly ==
    [][sResp' # sResp
         => /\ UNCHANGED <<tenantVars, current_db_path, last_updated_at,
                           storeVars, efs, cacheVars, busVars>>
            /\ sResp'.status = 200 => sResp'.data = standby]_vars

\* A standby read has returned data while the primary object and the
\* read-replica object both differ from the standby object.
C27_Witness ==
    /\ sResp.status = 200
    /\ sResp.data = standby
    /\ standby # primary
    /\ standby # read_replica

\* ---------------------------------------------- migration refresh: claims
\* C28: a delivery of the migration worker invokes the rehydration only
\* after a successful upload, for a message that targets the primary
\* bucket with refreshHotCache set and a tenant that is HOT; in every other
\* delivery the hot cache and the tenant's record stay as they are; and a
\* delivery whose rehydration failed has still succeeded.
C28_RefreshOnlyForHotPrimary ==
    [][migLog' # migLog
         => LET d == migLog'[Len(migLog')]
                due == /\ migMsg.bucket = "primary"
                       /\ migMsg.refreshHotCache
                       /\ storage_tier = "HOT"
            IN  /\ ~due => UNCHANGED <<efs, tenantVars, current_db_path>>
                /\ d.refresh # "none" => due
                /\ d.refresh = "failed"
                     => /\ d.result = "ok"
                        /\ UNCHANGED <<efs, tenantVars, current_db_path>>]_vars

\* The message of a HOT tenant was delivered twice: the rehydration of one
\* delivery failed, the other put the hot-cache file in place.
C28_Witness ==
    /\ \E i \in DOMAIN migLog : migLog[i].refresh = "failed"
    /\ \E i \in DOMAIN migLog : migLog[i].refresh = "ok"
    /\ efs # NoFile

\* ------------------------------------------------ tenant deletion: claims
\* C29: a deletion that got past the lookup of the tenant has called
\* delete_object on each of the three buckets before it touched the
\* records, and one that returned 200 has deleted the tenant record and
\* the replica record.
C29_DeleteAttemptsEveryBucket ==
    /\ delPc \in {"tenant_record", "replica_record"}
         => delAttempted = {"primary", "standby", "read_replica"}
    /\ (delPc = "done" /\ delStatus = 200)
         => /\ delAttempted = {"primary", "standby", "read_replica"}
            /\ ~tenantRecord
            /\ ~replicaRecord

\* ------------------------------------------------ sequential writes: claims
\* C30: when a write has returned success, the primary object contains the
\* effect of every write that returned success, the earlier ones included,
\* whatever reads and rehydrations ran between and alongside them.
C30_NoAcknowledgedWriteLost ==
    WriteSucceeded => acked \subseteq primary

\* ---------------------------------------- migration and writes: claims
\* C31: once a write has returned success and the worker has migrated the
\* primary object and is through with it, the primary object holds the
\* write and the migrated schema, and so does the hot-cache file of a HOT
\* tenant.
C31_WriteAndMigrationBothKept ==
    (WriteSucceeded /\ mwPc = "done" /\ "primary" \in mwDone)
        => /\ wid \in primary
           /\ Migration \in primary
           /\ (storage_tier = "HOT" /\ efs # NoFile)
                => (wid \in efs /\ Migration \in efs)

\* ------------------------------------------------- tier and file: claims
\* C32: whenever no write and no read is in progress and the tenant's
\* storage_tier is COLD, the tenant has no hot-cache file.
C32_ColdTenantHasNoHotFile ==
    (wpc \in {"idle", "done"} /\ rpc \in {"idle", "done"}
        /\ storage_tier = "COLD")
        => efs = NoFile

\* ------------------------------------------------ demotion cutoff: claims
\* C38: a demotion cycle takes up only a tenant whose last_accessed_at is
\* strictly older than the cycle's now minus COLD_THRESHOLD_HOURS; a tenant
\* whose last access is exactly at the cutoff is left alone.
C38_DemotesOnlyStrictlyOlder ==
    (dpc # "idle" /\ dSelected)
        => last_accessed_at < dNow - COLD_THRESHOLD_HOURS

\* -------------------------------------------------- demotion race: claims
\* C37: a step of the demotion cycle that finds the tenant accessed since
\* the scan, its last_accessed_at being newer than the cycle's cutoff,
\* neither sets the tenant to COLD nor removes its hot-cache file.
C37_AccessedTenantNotDemoted ==
    [][(dpc \in {"upload", "remove", "update"} /\ dpc' # dpc
            /\ ~last_accessed_tz
            /\ StillActive(last_accessed_at, dNow - COLD_THRESHOLD_HOURS))
         => (storage_tier' = storage_tier /\ efs' = efs)]_vars

\* ------------------------------------------------- cache version: claims
\* C39: the tenant's cache version never decreases, and the only step that
\* changes it is the bump at the end of a write request.
C39_OnlyWritesBumpVersion ==
    [][cache_ver' # cache_ver
         => /\ cache_ver' > cache_ver
            /\ wpc = "bump"
            /\ wpc' = "done"
            /\ wStatus' = 200]_vars

\* Two writes have bumped the version, and a read has been answered from
\* the database meanwhile.
C39_Witness ==
    /\ cache_ver = 2
    /\ rpc = "done"
    /\ rResp.status = 200
    /\ ~rResp.cache_hit


\* C33: once the migration worker has rewritten the primary database, no
\* read is answered by a cache hit whose payload was computed before the
\* migration.  A read whose predecessors were all answered before the
\* rewrite can only hit a payload stored before the rewrite, so its lookup
\* after the rewrite must miss.
C33_NoHitOnPreMigrationPayload ==
    [][(mwReadsDone >= 0 /\ rpc = "cache_lookup" /\ rpc' = "done"
           /\ rResp'.cache_hit)
       => rCount # mwReadsDone + 1]_vars


\* C34: once the standby object holds the snapshot of a write, no
\* replication event, redelivered or delivered out of order, replaces it
\* with the snapshot of an earlier write.
C34_StandbyNeverGoesBack ==
    [][\A w, v \in Effects :
         (/\ v < w
          /\ snapOf[w] # NoFile /\ standby = snapOf[w]
          /\ snapOf[v] # NoFile /\ standby' = snapOf[v])
         => standby' = standby]_vars


\* C35: a snapshot taken before the primary database was migrated never
\* overwrites a standby copy that already has the migrated schema, so that
\* with all migration jobs and replication events processed the standby
\* bucket has the migrated schema like the primary and the read replica.
C35_MigratedStandbyNotOverwritten ==
    [][\A w \in mwSnapsBefore :
         (standby # NoFile /\ Migration \in standby /\ standby' # standby)
         => standby' # snapOf[w]]_vars


\* The replication events published by writes that returned success.
AckedEvents == {e \in queue \cup processed : e.json /\ e.id \in acked}

\* C36: two distinct successful writes of the tenant never use the same
\* snapshot key, so the event of each names the snapshot of its own write.
C36_SnapshotKeysDistinct ==
    \A e1, e2 \in AckedEvents :
        e1.id # e2.id => e1.snapshot_s3_key # e2.snapshot_s3_key


\* A step of a request to the read handler or to the standby read handler.
ReadRequestStep == rpc' # rpc \/ sResp' # sResp

\* C40: a read request, whatever its outcome, changes no object of the
\* primary, read-replica or standby bucket, nor the replica record, nor the
\* cache version; besides last_accessed_at and a cache entry it writes only
\* the hot-cache file and the tier that a rehydration it triggers sets.
C40_ReadWritesOnlyItsOwn ==
    [][ReadRequestStep
         => /\ UNCHANGED <<primary, read_replica, standby, snapshots>>
            /\ UNCHANGED <<last_updated_at, replicaRecord>>
            /\ UNCHANGED cache_ver
            /\ efs' # efs => (efs = NoFile /\ efs' = primary)
            /\ storage_tier' # storage_tier
                 => (efs = NoFile /\ efs' = primary
                       /\ storage_tier' = "HOT")]_vars

====
